---------------------------- MODULE Spec2Model ----------------------------
(***************************************************************************)
(* The two aggregation scripts of the repository:                          *)
(*   a2a.py     analyze_property: geocode, then three places queries       *)
(*   travel.py  plan_trip: geocode, then weather and two places queries    *)
(* Each run is modelled from the read of the stdin line to the end of the  *)
(* orchestrator.  The providers (googlemaps geocode/places, wttr.in) are   *)
(* the environment: each call draws its response from a bounded set.       *)
(*                                                                         *)
(* Python values are records tagged with "kind"; a dict whose keys are     *)
(* optional is a record whose DOMAIN holds the keys present.  Strings that *)
(* are stripped or tested for emptiness are sequences of tokens, " " being *)
(* the whitespace token.                                                   *)
(***************************************************************************)
EXTENDS Naturals, Sequences, FiniteSets, TLC

VARIABLES
    variant,      \* which script runs: "a2a" or "travel"
    env,          \* the process environment's GOOGLE_MAPS_API_KEY
    client_ok,    \* whether googlemaps.Client accepts the key it is given
    line,         \* the line read from standard input
    pc,           \* position of the run
    query,        \* the argument the orchestrator was invoked with
    api_key,      \* self.api_key of the agents
    coordinates,  \* local `coordinates` of the orchestrator
    resp,         \* provider response received by each call made so far
    results,      \* the orchestrator's locals holding the downstream results
    order,        \* the downstream calls in the order they were made
    calls,        \* log of the requests sent to the providers
    output        \* what the orchestrator printed

vars == <<variant, env, client_ok, line, pc, query, api_key, coordinates, resp, results,
          order, calls, output>>

-----------------------------------------------------------------------------
(* Bounds of the model *)

\* longest result list a places provider returns
MaxRecords == 2

-----------------------------------------------------------------------------
(* Python values *)

None == [kind |-> "None"]
Str(t) == [kind |-> "str", text |-> t]
Num(t) == [kind |-> "num", text |-> t]
List(s) == [kind |-> "list", items |-> s]
EmptyList == List(<<>>)
NotCalled == [kind |-> "unbound"]

\* dict.get(key, default)
Get(d, key, default) ==
    IF key \in DOMAIN d THEN d[key] ELSE default

\* outcome of a block of code: a returned value or a raised exception
Return(v) == [exc |-> FALSE, ret |-> v]
Raise == [exc |-> TRUE, ret |-> None]

\* try: body / except Exception: return sentinel
TryExcept(outcome, sentinel) ==
    IF outcome.exc THEN Return(sentinel) ELSE outcome

-----------------------------------------------------------------------------
(* Process inputs *)

Variants == {"a2a", "travel"}

Unset == [set |-> FALSE, value |-> ""]
SetTo(v) == [set |-> TRUE, value |-> v]

Placeholder(v) ==
    IF v = "a2a" THEN "YOUR_API_KEY_HERE" ELSE "YOUR_GOOGLE_MAPS_API_KEY_HERE"

FallbackKey == "key"

EnvValues(v) ==
    {Unset, SetTo(""), SetTo(Placeholder(v)), SetTo("AIzaSy-valid")}

\* os.getenv("GOOGLE_MAPS_API_KEY", "key")
GetEnv(e) ==
    IF e.set THEN e.value ELSE FallbackKey

\* the agents' constructor test on self.api_key
KeyRejected(v, key) ==
    key = Placeholder(v) \/ key = ""

DefaultAddress == <<"1600 Amphitheatre Parkway, Mountain View, CA">>

Lines == {<<>>, <<" ">>, <<"Paris", " ">>}

RECURSIVE LStrip(_)
LStrip(s) ==
    IF s # <<>> /\ Head(s) = " " THEN LStrip(Tail(s)) ELSE s

RECURSIVE RStrip(_)
RStrip(s) ==
    IF s # <<>> /\ s[Len(s)] = " " THEN RStrip(SubSeq(s, 1, Len(s) - 1)) ELSE s

\* str.strip()
Strip(s) == RStrip(LStrip(s))

\* the argument the __main__ block passes to the orchestrator
MainArgument(v, ln) ==
    IF v = "a2a"
    THEN (IF ln = <<>> THEN DefaultAddress ELSE ln)
    ELSE Strip(ln)

-----------------------------------------------------------------------------
(* The geocoding provider and LocationAgent.get_coordinates *)

Location(lat, lng) == [lat |-> lat, lng |-> lng]
GeoResult(loc) == [geometry |-> [location |-> loc]]

Origin == Location(0, 0)
ParisLoc == Location(48, 2)

\* what gmaps.geocode does: raises, or returns a list of results
GeoResponses ==
    { [kind |-> "raise"],
      [kind |-> "list", items |-> <<>>],
      [kind |-> "list", items |-> <<GeoResult(Origin)>>],
      [kind |-> "list", items |-> <<GeoResult(ParisLoc), GeoResult(Origin)>>],
      [kind |-> "list", items |-> <<[formatted_address |-> "Paris"]>>],
      [kind |-> "list", items |-> <<GeoResult([lat |-> 48])>>] }

\* the last result taken for the first
LastResult(items) == items[Len(items)]

\* geocode_result[0]
FirstResult(items) == items[1]

\* the try block of get_coordinates
GetCoordinatesBody(r) ==
    IF r.kind = "raise" THEN Raise
    ELSE IF r.items = <<>> THEN Return(None)
    ELSE LET first == FirstResult(r.items)
         IN  IF "geometry" \notin DOMAIN first THEN Raise
             ELSE IF "location" \notin DOMAIN first.geometry THEN Raise
             ELSE LET location == first.geometry.location
                  IN  IF {"lat", "lng"} \subseteq DOMAIN location
                      THEN Return(location)
                      ELSE Raise

\* get_coordinates without its exception handler
get_coordinates_unguarded(r) == GetCoordinatesBody(r)

get_coordinates(r) == TryExcept(GetCoordinatesBody(r), None)

\* the branch on the geocoding result left out
CoordinatesMissingNever(c) == FALSE

\* `not coordinates` in the orchestrators
CoordinatesMissing(c) == c = None

-----------------------------------------------------------------------------
(* The places provider and find_nearby_places (AmenitiesAgent in a2a.py,   *)
(* AttractionsAgent in travel.py: the same code)                           *)

DefaultRadius == 5000

PlaceRecords ==
    { [name |-> Str("Louvre"), vicinity |-> Str("Rue de Rivoli"),
       formatted_address |-> Str("Rue de Rivoli, 75001 Paris")],
      [formatted_address |-> Str("5 Avenue Anatole France, 75007 Paris")] }

RecordLists == UNION { [1..n -> PlaceRecords] : n \in 0..MaxRecords }

\* what gmaps.places does: raises, or returns None or a dict
PlacesResponses ==
    { [kind |-> "raise"],
      [kind |-> "value", value |-> None],
      [kind |-> "value", value |-> [status |-> "ZERO_RESULTS"]] }
    \cup { [kind |-> "value", value |-> [status |-> "OK", results |-> l]] :
           l \in RecordLists }

\* the two address fields consulted in the opposite order
PlaceAddressLongFirst(place) ==
    Get(place, "formatted_address", Get(place, "vicinity", None))

\* place.get('vicinity', place.get('formatted_address'))
PlaceAddress(place) ==
    Get(place, "vicinity", Get(place, "formatted_address", None))

\* the dict appended for one place
PlaceEntry(place) ==
    [name |-> Get(place, "name", None), address |-> PlaceAddress(place)]

\* the for loop over places_result['results']
RECURSIVE Amenities(_)
Amenities(places) ==
    IF Len(places) = 0 THEN <<>>
    ELSE Append(Amenities(SubSeq(places, 1, Len(places) - 1)),
                PlaceEntry(places[Len(places)]))

\* the try block of find_nearby_places
FindNearbyPlacesBody(location, r) ==
    IF r.kind = "raise" THEN Raise
    ELSE LET places_result == r.value
         IN  IF places_result = None
                \/ Len(Get(places_result, "results", <<>>)) = 0
             THEN Return(EmptyList)
             ELSE Return(List(Amenities(places_result.results)))

\* find_nearby_places without its exception handler
find_nearby_places_unguarded(location, r) ==
    FindNearbyPlacesBody(location, r)

find_nearby_places(location, r) ==
    TryExcept(FindNearbyPlacesBody(location, r), EmptyList)

-----------------------------------------------------------------------------
(* The weather provider and WeatherAgent.get_weather (travel.py)           *)

Condition(temp, feels, hum, wind) ==
    [weatherDesc |-> <<[value |-> Str("Sunny")]>>, temp_C |-> temp,
     FeelsLikeC |-> feels, humidity |-> hum, windspeedKmph |-> wind]

GoodPayloads ==
    { [current_condition |->
          <<Condition(Str("22"), Str("21"), Str("40"), Str("9"))>>],
      [current_condition |->
          <<Condition(Num("22"), Num("21"), Num("40"), Num("9"))>>] }

BadPayloads ==
    { [nearest_area |-> <<>>],
      [current_condition |-> <<>>],
      [current_condition |->
          <<[weatherDesc |-> <<[value |-> Str("Sunny")]>>,
             temp_C |-> Str("22")]>>],
      [current_condition |->
          <<[weatherDesc |-> <<>>, temp_C |-> Str("22"), FeelsLikeC |-> Str("21"),
             humidity |-> Str("40"), windspeedKmph |-> Str("9")]>>] }

\* what requests.get does: raises, or returns a response with a status and a body
WeatherResponses ==
    { [kind |-> "raise"],
      [kind |-> "http", status |-> 200, json |-> FALSE, body |-> None] }
    \cup { [kind |-> "http", status |-> 500, json |-> TRUE, body |-> p] :
           p \in GoodPayloads }
    \cup { [kind |-> "http", status |-> 200, json |-> TRUE, body |-> p] :
           p \in GoodPayloads \cup BadPayloads }

\* response.raise_for_status()
BadStatus(status) == status >= 400 /\ status < 600

\* f"{value}{suffix}"
Format(value, suffix) == Str(value.text \o suffix)

\* the provider's temperature passed on as it came
TemperatureRaw(cc) == cc.temp_C

TemperatureField(cc) == Format(cc.temp_C, " °C")

\* the dict built from current_condition
WeatherReport(cc) ==
    [description |-> cc.weatherDesc[1].value,
     temperature |-> TemperatureField(cc),
     feels_like  |-> Format(cc.FeelsLikeC, " °C"),
     humidity    |-> Format(cc.humidity, "%"),
     wind_speed  |-> Format(cc.windspeedKmph, " km/h")]

ConditionKeys == {"weatherDesc", "temp_C", "FeelsLikeC", "humidity", "windspeedKmph"}

\* the try block of get_weather
GetWeatherBody(r) ==
    IF r.kind = "raise" THEN Raise
    ELSE IF BadStatus(r.status) THEN Raise
    ELSE IF ~r.json THEN Raise
    ELSE LET weather_data == r.body
         IN  IF "current_condition" \notin DOMAIN weather_data THEN Raise
             ELSE IF Len(weather_data.current_condition) = 0 THEN Raise
             ELSE LET cc == weather_data.current_condition[1]
                  IN  IF /\ ConditionKeys \subseteq DOMAIN cc
                         /\ Len(cc.weatherDesc) > 0
                         /\ "value" \in DOMAIN cc.weatherDesc[1]
                      THEN Return(WeatherReport(cc))
                      ELSE Raise

\* location['lat'], location['lng'] are read before the try block
HasLatLng(location) == {"lat", "lng"} \subseteq DOMAIN location

\* get_weather without its exception handler
get_weather_unguarded(location, r) ==
    IF ~HasLatLng(location) THEN Raise ELSE GetWeatherBody(r)

get_weather(location, r) ==
    IF ~HasLatLng(location) THEN Raise
    ELSE TryExcept(GetWeatherBody(r), None)

-----------------------------------------------------------------------------
(* The orchestrators: analyze_property (a2a.py) and plan_trip (travel.py)  *)

\* the downstream calls of step 2, in program order
CodeOrder(v) ==
    IF v = "a2a"
    THEN <<"school", "park", "grocery store">>
    ELSE <<"weather", "tourist_attraction", "restaurant">>

Slots(v) == {CodeOrder(v)[i] : i \in 1..Len(CodeOrder(v))}

Range(s) == {s[i] : i \in 1..Len(s)}

\* the titles the report is printed under, in program order
SectionTitle(slot) ==
    CASE slot = "school" -> "Nearby Schools:"
      [] slot = "park" -> "Nearby Parks:"
      [] slot = "grocery store" -> "Nearby Grocery Stores:"
      [] slot = "weather" -> "Weather Forecast:"
      [] slot = "tourist_attraction" -> "Nearby Attractions:"
      [] slot = "restaurant" -> "Nearby Restaurants:"

Notice(text) == [kind |-> "notice", text |-> text]
Section(slot, body) == [kind |-> "section", title |-> SectionTitle(slot), body |-> body]

\* results kept by position of arrival instead of by name
StoreResultByArrival(res, slot, value) ==
    LET unbound == {i \in 1..Len(CodeOrder(variant)) : res[CodeOrder(variant)[i]] = NotCalled}
        first == CHOOSE i \in unbound : \A j \in unbound : i <= j
    IN  [res EXCEPT ![CodeOrder(variant)[first]] = value]

\* the assignment of a downstream result to its local variable
StoreResult(res, slot, value) == [res EXCEPT ![slot] = value]

\* the print/pprint pairs of step 3
RECURSIVE ReportSections(_, _)
ReportSections(slots, res) ==
    IF slots = <<>> THEN <<>>
    ELSE <<Section(Head(slots), res[Head(slots)])>> \o ReportSections(Tail(slots), res)

Init ==
    /\ variant \in Variants
    /\ env \in EnvValues(variant)
    /\ client_ok \in BOOLEAN
    /\ line \in Lines
    /\ pc = "main"
    /\ query = <<>>
    /\ api_key = "unbound"
    /\ coordinates = NotCalled
    /\ resp = [s \in Slots(variant) \cup {"geocode"} |-> NotCalled]
    /\ results = [s \in Slots(variant) |-> NotCalled]
    /\ order = <<>>
    /\ calls = <<>>
    /\ output = <<>>

\* __main__: the line read from input() becomes the orchestrator's argument
Main ==
    /\ pc = "main"
    /\ query' = MainArgument(variant, line)
    /\ output' = Append(output, Notice("Starting"))
    /\ pc' = "construct"
    /\ UNCHANGED <<variant, env, client_ok, line, api_key, coordinates, resp, results, order, calls>>

\* the try block constructing the agents.  Every agent that takes a key reads
\* the same environment and applies the same test.  googlemaps.Client is a
\* library outside the repository: it either builds the client or refuses the
\* key with a ValueError, which the same handler catches (client_ok).
ConstructAgents ==
    /\ pc = "construct"
    /\ api_key' = GetEnv(env)
    /\ IF KeyRejected(variant, api_key') \/ ~client_ok
       THEN /\ output' = Append(output, Notice("Initialization failed"))
            /\ pc' = "init_failed"
       ELSE /\ output' = output
            /\ pc' = "geocode"
    /\ UNCHANGED <<variant, env, client_ok, line, query, coordinates, resp, results, order, calls>>

\* step 1: get_coordinates and the branch on its result
Geocode ==
    /\ pc = "geocode"
    /\ \E r \in GeoResponses :
          LET o == get_coordinates(r)
          IN  /\ resp' = [resp EXCEPT !["geocode"] = r]
              /\ calls' = Append(calls, [api |-> "geocode", arg |-> query])
              /\ IF o.exc
                 THEN /\ pc' = "crashed"
                      /\ UNCHANGED <<coordinates, output>>
                 ELSE /\ coordinates' = o.ret
                      /\ IF CoordinatesMissing(o.ret)
                         THEN /\ output' = Append(output, Notice("Could not find coordinates"))
                              /\ pc' = "aborted"
                         ELSE /\ output' = output
                              /\ pc' = "step2"
    /\ UNCHANGED <<variant, env, client_ok, line, query, api_key, results, order>>

\* what a downstream call leaves behind in the orchestrator
AfterCall(slot, o) ==
    IF o.exc
    THEN /\ pc' = "crashed"
         /\ UNCHANGED <<results, order>>
    ELSE /\ results' = StoreResult(results, slot, o.ret)
         /\ order' = Append(order, slot)
         /\ pc' = IF Len(order') = Len(CodeOrder(variant)) THEN "render" ELSE "step2"

\* step 2: weather_agent.get_weather(coordinates)
CallWeather(slot) ==
    /\ pc = "step2"
    /\ slot = "weather"
    /\ \E r \in WeatherResponses :
          LET o == get_weather(coordinates, r)
          IN  /\ resp' = [resp EXCEPT ![slot] = r]
              /\ calls' = IF HasLatLng(coordinates)
                          THEN Append(calls, [api |-> "weather", arg |-> coordinates])
                          ELSE calls
              /\ AfterCall(slot, o)
    /\ UNCHANGED <<variant, env, client_ok, line, query, api_key, coordinates, output>>

\* step 2: find_nearby_places(coordinates, place_type)
CallPlaces(slot) ==
    /\ pc = "step2"
    /\ slot # "weather"
    /\ \E r \in PlacesResponses :
          LET o == find_nearby_places(coordinates, r)
          IN  /\ resp' = [resp EXCEPT ![slot] = r]
              /\ calls' = Append(calls, [api |-> "places", arg |-> coordinates,
                                         place_type |-> slot, radius |-> DefaultRadius])
              /\ AfterCall(slot, o)
    /\ UNCHANGED <<variant, env, client_ok, line, query, api_key, coordinates, output>>

\* the next downstream call of the program
NextSlot == CodeOrder(variant)[Len(order) + 1]

Weather == CallWeather(NextSlot)

Places == CallPlaces(NextSlot)

\* step 3: the report
Render ==
    /\ pc = "render"
    /\ output' = Append(output, Notice("Complete"))
                    \o ReportSections(CodeOrder(variant), results)
    /\ pc' = "done"
    /\ UNCHANGED <<variant, env, client_ok, line, query, api_key, coordinates, resp, results, order, calls>>

Next ==
    \/ Main
    \/ ConstructAgents
    \/ Geocode
    \/ Weather
    \/ Places
    \/ Render

Spec == Init /\ [][Next]_vars

\* a sequential program takes its next step while it has one
FairSpec == Spec /\ WF_vars(Next)

\* step 2 with the program order lifted: any downstream call not yet made
WeatherAnyOrder == \E s \in Slots(variant) \ Range(order) : CallWeather(s)

PlacesAnyOrder == \E s \in Slots(variant) \ Range(order) : CallPlaces(s)

NextAnyOrder ==
    \/ Main
    \/ ConstructAgents
    \/ Geocode
    \/ WeatherAnyOrder
    \/ PlacesAnyOrder
    \/ Render

SpecAnyOrder == Init /\ [][NextAnyOrder]_vars

-----------------------------------------------------------------------------
(* Properties *)

\* positions in the log of the requests sent to the places and weather providers
DownstreamCalls == {i \in 1..Len(calls) : calls[i].api \in {"places", "weather"}}

HasSection == \E i \in 1..Len(output) : output[i].kind = "section"

GeocodeSucceeded == coordinates \notin {NotCalled, None}

FailureOutput == <<Notice("Starting"), Notice("Could not find coordinates")>>

\* C1: when get_coordinates yields no coordinate (zero results or a raised
\* geocoding call) no places or weather request is sent, no report section is
\* printed and the run ends on the failure notice alone; and a places or
\* weather request is only ever sent with a coordinate obtained from geocoding.
C1_DownstreamOnlyWithCoordinate ==
    /\ coordinates = None =>
          /\ DownstreamCalls = {}
          /\ order = <<>>
          /\ ~HasSection
          /\ pc = "aborted"
          /\ output = FailureOutput
    /\ (DownstreamCalls # {} \/ order # <<>> \/ HasSection) =>
          /\ GeocodeSucceeded
          /\ HasLatLng(coordinates)
          /\ calls[1].api = "geocode"

C1_Witness ==
    /\ pc = "aborted"
    /\ resp["geocode"] = [kind |-> "list", items |-> <<>>]
    /\ output = FailureOutput

PlacesFailed(r) == r.kind = "raise"

WeatherWellFormed(r) ==
    /\ r.kind = "http"
    /\ r.status = 200
    /\ r.json
    /\ r.body \in GoodPayloads

\* the records of a places response, none when it holds no result set
RecordsOf(r) ==
    IF r.kind = "value" /\ r.value # None /\ "results" \in DOMAIN r.value
    THEN r.value.results
    ELSE <<>>

PlacesSlots == Range(order) \ {"weather"}

\* C3: once geocoding has succeeded the run stays on the path to the report,
\* every downstream call made so far was sent to its provider, a failed places
\* query left the empty list and a failed weather lookup left None in its own
\* slice, every other slice holds as many entries as its own response, and the
\* finished run has made all three calls and printed all three sections.
C3_FailureDegradesOnlyItsSlice ==
    GeocodeSucceeded =>
        /\ pc \in {"step2", "render", "done"}
        /\ Cardinality(DownstreamCalls) = Len(order)
        /\ \A s \in PlacesSlots :
              /\ PlacesFailed(resp[s]) => results[s] = EmptyList
              /\ results[s].kind = "list"
              /\ Len(results[s].items) = Len(RecordsOf(resp[s]))
        /\ "weather" \in Range(order) =>
              IF WeatherWellFormed(resp["weather"])
              THEN results["weather"] # None
              ELSE results["weather"] = None
        /\ pc \in {"render", "done"} => Range(order) = Slots(variant)
        /\ pc = "done" =>
              /\ Len(output) = 2 + Len(CodeOrder(variant))
              /\ \A i \in 1..Len(CodeOrder(variant)) :
                    output[2 + i] = Section(CodeOrder(variant)[i],
                                            results[CodeOrder(variant)[i]])

C3_Witness ==
    /\ pc = "done"
    /\ variant = "travel"
    /\ resp["weather"].kind = "raise"
    /\ results["weather"] = None
    /\ Len(results["tourist_attraction"].items) = 1
    /\ Len(results["restaurant"].items) = 2
    /\ output[3].body = None
    /\ Len(output[5].body.items) = 2

\* C4: no exception leaves get_coordinates, find_nearby_places or get_weather:
\* every call that was made left a value in the orchestrator, and after the
\* agents are built the run stops early only where geocoding gave None.
C4_FailuresBecomeSentinels ==
    /\ pc # "crashed"
    /\ resp["geocode"] # NotCalled => coordinates # NotCalled
    /\ \A s \in Slots(variant) :
          (resp[s] # NotCalled) <=> (results[s] # NotCalled)
    /\ \A s \in Slots(variant) :
          (resp[s] # NotCalled /\ resp[s].kind = "raise") =>
              results[s] = (IF s = "weather" THEN None ELSE EmptyList)
    /\ resp["geocode"] = [kind |-> "raise"] => coordinates = None
    /\ (pc = "aborted") <=> (coordinates = None)

C4_Witness ==
    /\ pc = "done"
    /\ variant = "travel"
    /\ \A s \in Slots(variant) : resp[s].kind = "raise"

\* the name and address find_nearby_places is to give for a provider record
ExpectedName(rec) == IF "name" \in DOMAIN rec THEN rec.name ELSE None

ExpectedAddress(rec) ==
    IF "vicinity" \in DOMAIN rec THEN rec.vicinity
    ELSE IF "formatted_address" \in DOMAIN rec THEN rec.formatted_address
    ELSE None

\* C5: for a places response of N records find_nearby_places returned N
\* entries in the provider's order, each with the record's name and with the
\* 'vicinity' address when the record has one and the 'formatted_address'
\* otherwise; a missing or empty result set and a raised call gave the empty list.
C5_PlacesMapping ==
    \A s \in PlacesSlots :
        LET recs == RecordsOf(resp[s])
            got == results[s]
        IN  /\ got.kind = "list"
            /\ Len(got.items) = Len(recs)
            /\ \A i \in 1..Len(recs) :
                  /\ got.items[i].name = ExpectedName(recs[i])
                  /\ got.items[i].address = ExpectedAddress(recs[i])

C5_Witness ==
    \E s \in PlacesSlots :
        /\ Len(results[s].items) = 2
        /\ "vicinity" \in DOMAIN resp[s].value.results[1]
        /\ "vicinity" \notin DOMAIN resp[s].value.results[2]
        /\ results[s].items[1].address = Str("Rue de Rivoli")
        /\ results[s].items[2].address = Str("5 Avenue Anatole France, 75007 Paris")

\* C6: the orchestrator is never invoked with an empty query string.
C6_QueryNeverEmpty == pc # "main" => query # <<>>

Ended == {"done", "aborted", "init_failed"}

GeoWellFormed(r) ==
    /\ r.kind = "list"
    /\ Len(r.items) > 0
    /\ "geometry" \in DOMAIN r.items[1]
    /\ {"lat", "lng"} \subseteq DOMAIN r.items[1].geometry.location

\* C8: get_coordinates gave the latitude and longitude of the provider's first
\* result when the provider resolved the query, and None both when the
\* provider returned no result and when the call raised, the run aborting with
\* the same output in the two cases.
C8_FirstResultOrNone ==
    resp["geocode"] # NotCalled =>
        LET r == resp["geocode"]
        IN  /\ GeoWellFormed(r) =>
                  /\ coordinates.lat = r.items[1].geometry.location.lat
                  /\ coordinates.lng = r.items[1].geometry.location.lng
                  /\ DOMAIN coordinates = {"lat", "lng"}
                  /\ pc \in {"step2", "render", "done"}
            /\ (r.kind = "raise" \/ r.items = <<>>) =>
                  /\ coordinates = None
                  /\ pc = "aborted"
                  /\ output = FailureOutput

C8_Witness ==
    /\ resp["geocode"] # NotCalled
    /\ resp["geocode"].kind = "list"
    /\ Len(resp["geocode"].items) = 2
    /\ coordinates = ParisLoc
    /\ pc = "step2"

SummaryFields == {"description", "temperature", "feels_like", "humidity", "wind_speed"}

ExpectedBody(slot) ==
    IF slot = "weather"
    THEN get_weather(coordinates, resp[slot]).ret
    ELSE find_nearby_places(coordinates, resp[slot]).ret

\* C10: in whatever order the downstream calls are made, each is sent the
\* coordinate get_coordinates returned, and the finished report is the one
\* the provider responses decide, section by section, whatever the order.
C10_OrderIndependent ==
    /\ \A i \in DownstreamCalls :
          /\ calls[i].arg = coordinates
          /\ calls[i].arg = resp["geocode"].items[1].geometry.location
    /\ pc = "done" =>
          output = <<Notice("Starting"), Notice("Complete")>>
                      \o [i \in 1..Len(CodeOrder(variant)) |->
                            Section(CodeOrder(variant)[i], ExpectedBody(CodeOrder(variant)[i]))]

C10_Witness ==
    /\ pc = "done"
    /\ variant = "travel"
    /\ order = <<"restaurant", "tourist_attraction", "weather">>
    /\ results["weather"] # None
    /\ Len(results["restaurant"].items) = 2
    /\ results["tourist_attraction"] = EmptyList

=============================================================================
